---- MODULE Spec2Model ----
(***************************************************************************)
(* FuelEU pool compliance engine (ComplianceCalculator).                   *)
(*                                                                         *)
(* Numbers are exact fixed-point integers; one unit per kind of quantity:  *)
(*   intensities (ghgIntensity, targetIntensity, deviation, pool averages) *)
(*       count 0.0001 gCO2e/MJ, so 89.3368 is 893368;                      *)
(*   fuelConsumption and totalEnergyConsumption count 1000 MJ;             *)
(*   reduction targets and the banking/borrowing limits count 0.01         *)
(*       (0.02 is 2), referenceGHGIntensity counts 0.01 g (91.16 is 9116); *)
(*   unrounded balances and energies (deviation * fuelConsumption) count   *)
(*       0.1, i.e. 1e-7 tCO2e;                                             *)
(*   fields the code passes through toFixed(k) count 10^-k of their own    *)
(*       unit (complianceBalance counts 0.01 t, energyDeficit counts 1),   *)
(*       except the intensity fields, which stay in 0.0001 g and become    *)
(*       multiples of the rounding step.                                   *)
(* Floating-point representation error is not modelled.                    *)
(***************************************************************************)
EXTENDS Integers, Sequences, FiniteSets, TLC

VARIABLES calc, op, argVessels, argYear, argEndYear, result, calls,
          fleet, pools, users, authUsers

\* fleet is VesselManager.vessels, pools is PoolManager.pools
fleetVars == <<fleet, pools>>

\* UserManager.users and AuthManager.users
userVars == <<users, authUsers>>

vars == <<calc, op, argVessels, argYear, argEndYear, result, calls,
          fleet, pools, users, authUsers>>

(***************************************************************************)
(* Bounds and input sets                                                   *)
(***************************************************************************)
MaxVessels == 3
MaxTrendVessels == 1

FuelValues == {1, 28}

GhgValues == {300000, 856904, 893364, 893368, 893372, 951200, 4000000}

Years == {1999, 2025, 2030, 2031, 2032, 2033}

\* A large vessel far below every target: its surplus outweighs a deficit that
\* carries a penalty.
LargeCleanVessel == [fuelConsumption |-> 56, ghgIntensity |-> 100000]

\* A vessel 0.02 g above the target of 2025: its energy gap, 560 MJ, is below
\* 5% of its fuel.
NearTargetVessel == [fuelConsumption |-> 28, ghgIntensity |-> 893568]

\* A vessel that has to come down by 4.96% of its own intensity in 2025, which
\* is 5.22% of the target.
JustBelowFivePercentVessel == [fuelConsumption |-> 1, ghgIntensity |-> 940000]

VesselRecords ==
    [fuelConsumption : FuelValues, ghgIntensity : GhgValues]
        \cup {LargeCleanVessel, NearTargetVessel, JustBelowFivePercentVessel}

(***************************************************************************)
(* Arithmetic helpers                                                      *)
(***************************************************************************)
Abs(x) == IF x < 0 THEN -x ELSE x

Max(a, b) == IF a >= b THEN a ELSE b

Min(a, b) == IF a <= b THEN a ELSE b

\* Number(x.toFixed(k)): n/d rounded to the nearest integer, ties away from zero.
ToFixed(n, d) ==
    LET a == Abs(n)
        q == a \div d
        r == a % d
        m == IF 2 * r >= d THEN q + 1 ELSE q
    IN  IF n < 0 THEN -m ELSE m

\* floor(x * m / d) for x >= 0, without forming x * m.
MulDivFloor(x, m, d) == (x \div d) * m + ((x % d) * m) \div d

\* An exact non-negative fraction whole + num/den (0 <= num < den) times m.
FracTimes(p, m, den) ==
    [whole |-> p.whole * m + (p.num * m) \div den, num |-> (p.num * m) % den]

\* p times 10^k
RECURSIVE FracShift(_, _, _)
FracShift(p, k, den) ==
    IF k = 0 THEN p ELSE FracShift(FracTimes(p, 10, den), k - 1, den)

\* Number((x / d * 10^k).toFixed(0)) for d > 0, without forming x * 10^k.
RatioToFixed(x, d, k) ==
    LET a == Abs(x)
        p == FracShift([whole |-> a \div d, num |-> a % d], k, d)
        m == IF 2 * p.num >= d THEN p.whole + 1 ELSE p.whole
    IN  IF x < 0 THEN -m ELSE m

(***************************************************************************)
(* ComplianceCalculator                                                    *)
(***************************************************************************)
ComplianceCalculator ==
    [complianceTargets |-> [y \in 2025..2032 |-> IF y <= 2029 THEN 2 ELSE 6],
     referenceGHGIntensity |-> 9116,
     penaltyRates |-> [y \in 2025..2030 |-> 640],
     bankingLimit |-> 5,
     borrowingLimit |-> 5]

\* !this.complianceTargets[year] is false
HasTarget(year) ==
    year \in DOMAIN calc.complianceTargets /\ calc.complianceTargets[year] # 0

InvalidYear(year) == [error |-> "Invalid compliance year", year |-> year]

IsError(r) == "error" \in DOMAIN r

\* Variant: the reduction is added to the reference instead of taken off.
TargetIntensity_Added(target) == calc.referenceGHGIntensity * (100 + target)

\* this.referenceGHGIntensity * (1 - target), in 0.0001 g
TargetIntensity(target) == calc.referenceGHGIntensity * (100 - target)

\* Variant: a year beyond the penalty table has no rate.
PenaltyRate_NoFallback(year) ==
    IF year \in DOMAIN calc.penaltyRates THEN calc.penaltyRates[year] ELSE 0

\* this.penaltyRates[year] || this.penaltyRates[2030]
PenaltyRate(year) ==
    IF year \in DOMAIN calc.penaltyRates /\ calc.penaltyRates[year] # 0
    THEN calc.penaltyRates[year]
    ELSE calc.penaltyRates[2030]

\* a <= b for exact fractions whole + num/den over the same denominator
FracLeq(a, b) == a.whole < b.whole \/ (a.whole = b.whole /\ a.num <= b.num)

\* Variant: the bonus for a surplus is not clipped at 100.
calculateComplianceScore_Unclipped(actualNum, actualDen, targetIntensity) ==
    LET den == targetIntensity * actualDen
        hundred == [whole |-> 100, num |-> 0, den |-> den]
        zero == [whole |-> 0, num |-> 0, den |-> den]
    IN  IF actualNum <= den
        THEN LET x == den - actualNum
                 surplusPercent == [whole |-> x \div den, num |-> x % den]
                 bonus == FracTimes(FracTimes(surplusPercent, 10, den), 2, den)
                 s == [whole |-> 100 + bonus.whole, num |-> bonus.num, den |-> den]
             IN  s
        ELSE LET x == actualNum - den
                 deficitPercent == [whole |-> x \div den, num |-> x % den]
                 p == FracTimes(FracTimes(deficitPercent, 10, den), 10, den)
                 s == IF p.num = 0
                      THEN [whole |-> 100 - p.whole, num |-> 0, den |-> den]
                      ELSE [whole |-> 99 - p.whole, num |-> den - p.num, den |-> den]
             IN  IF FracLeq(zero, s) THEN s ELSE zero

\* The score of actualIntensity = actualNum/actualDen against targetIntensity,
\* as the exact fraction whole + num/den.
calculateComplianceScore(actualNum, actualDen, targetIntensity) ==
    LET den == targetIntensity * actualDen
        hundred == [whole |-> 100, num |-> 0, den |-> den]
        zero == [whole |-> 0, num |-> 0, den |-> den]
    IN  IF actualNum <= den
        THEN LET x == den - actualNum
                 surplusPercent == [whole |-> x \div den, num |-> x % den]
                 bonus == FracTimes(FracTimes(surplusPercent, 10, den), 2, den)
                 s == [whole |-> 100 + bonus.whole, num |-> bonus.num, den |-> den]
             IN  IF FracLeq(hundred, s) THEN hundred ELSE s
        ELSE LET x == actualNum - den
                 deficitPercent == [whole |-> x \div den, num |-> x % den]
                 p == FracTimes(FracTimes(deficitPercent, 10, den), 10, den)
                 s == IF p.num = 0
                      THEN [whole |-> 100 - p.whole, num |-> 0, den |-> den]
                      ELSE [whole |-> 99 - p.whole, num |-> den - p.num, den |-> den]
             IN  IF FracLeq(zero, s) THEN s ELSE zero

\* Variant: the status is read off the balance rounded to 0.01 t.
StatusOf_Rounded(complianceBalance) ==
    IF ToFixed(complianceBalance, 100000) < 0 THEN "non-compliant" ELSE "compliant"

\* Variant: a zero balance counts as a deficit.
StatusOf_TieDeficit(complianceBalance) ==
    IF complianceBalance <= 0 THEN "non-compliant" ELSE "compliant"

\* complianceBalance < 0 ? 'non-compliant' : 'compliant'
StatusOf(complianceBalance) ==
    IF complianceBalance < 0 THEN "non-compliant" ELSE "compliant"

\* Math.max(0, deviation * vessel.fuelConsumption)
EnergyDeficit(deviation, fuelConsumption) == Max(0, deviation * fuelConsumption)

\* Variant: the negation of the deviation is lost.
EnergySurplus_NoNegate(deviation, fuelConsumption) == Max(0, deviation * fuelConsumption)

\* Math.max(0, -deviation * vessel.fuelConsumption)
EnergySurplus(deviation, fuelConsumption) == Max(0, (-deviation) * fuelConsumption)

\* Variant: the deviation is taken the other way round.
Deviation_Reversed(targetIntensity, ghgIntensity) == ghgIntensity - targetIntensity

\* const deviation = targetIntensity - vessel.ghgIntensity
Deviation(targetIntensity, ghgIntensity) == targetIntensity - ghgIntensity

\* Variant: the deviation is not weighted with the fuel consumed.
ComplianceBalance_Unweighted(deviation, fuelConsumption) == deviation

\* (deviation * vessel.fuelConsumption) / 1000000, in 1e-7 t
ComplianceBalance(deviation, fuelConsumption) == deviation * fuelConsumption

\* The unrounded locals of calculateVesselCompliance.
VesselLocals(vessel, year) ==
    LET target == calc.complianceTargets[year]
        targetIntensity == TargetIntensity(target)
        deviation == Deviation(targetIntensity, vessel.ghgIntensity)
        complianceBalance == ComplianceBalance(deviation, vessel.fuelConsumption)
        penaltyRate == PenaltyRate(year)
    IN  [targetIntensity |-> targetIntensity,
         deviation |-> deviation,
         complianceBalance |-> complianceBalance,
         status |-> StatusOf(complianceBalance),
         energyDeficit |-> EnergyDeficit(deviation, vessel.fuelConsumption),
         energySurplus |-> EnergySurplus(deviation, vessel.fuelConsumption),
         penaltyRate |-> penaltyRate]

\* Variant: the penalty is cut to two decimals instead of rounded.
PotentialPenalty_Truncated(complianceBalance, penaltyRate) ==
    IF complianceBalance < 0
    THEN MulDivFloor(Abs(complianceBalance), penaltyRate, 100000) \div 1000000
    ELSE 0

\* abs(complianceBalance) * penaltyRate / 1000000, in 0.01 million
PotentialPenalty(complianceBalance, penaltyRate) ==
    IF complianceBalance < 0
    THEN ToFixed(MulDivFloor(Abs(complianceBalance), penaltyRate, 100000), 1000000)
    ELSE 0

\* Variant: a field stored on the vessel wins over the computed one.
Spread_StoredWins(computed, vessel) == vessel @@ computed

\* { ...vessel, <computed fields> }: the later, computed fields win.
Spread(computed, vessel) == computed @@ vessel

\* The record calculateVesselCompliance returns, built from its locals l.
VesselFields(vessel, year, l) ==
    Spread([complianceYear |-> year,
     targetIntensity |-> ToFixed(l.targetIntensity, 100) * 100,
     deviation |-> ToFixed(l.deviation, 10) * 10,
     deviationPercent |-> RatioToFixed(l.deviation, l.targetIntensity, 4),
     energyDeficit |-> ToFixed(l.energyDeficit, 10),
     energySurplus |-> ToFixed(l.energySurplus, 10),
     complianceBalance |-> ToFixed(l.complianceBalance, 100000),
     potentialPenalty |-> PotentialPenalty(l.complianceBalance, l.penaltyRate),
     status |-> l.status,
     complianceScore |->
         calculateComplianceScore(vessel.ghgIntensity, 1, l.targetIntensity)],
     vessel)

\* calculateVesselCompliance for a year of the target table.
VesselComplianceResult(vessel, year) ==
    VesselFields(vessel, year, VesselLocals(vessel, year))

\* Variant: a year without a target is computed with the 2025 target.
calculateVesselCompliance_DefaultYear(vessel, year) ==
    IF ~HasTarget(year) THEN VesselComplianceResult(vessel, 2025)
    ELSE VesselComplianceResult(vessel, year)

\* Variant: the inputs are validated first, as validateInputs would.
calculateVesselCompliance_Validating(vessel, year) ==
    IF ~HasTarget(year) THEN InvalidYear(year)
    ELSE IF vessel.fuelConsumption <= 0 \/ vessel.ghgIntensity <= 0
         THEN [error |-> "Valid fuel consumption is required", year |-> year]
         ELSE VesselComplianceResult(vessel, year)

calculateVesselCompliance(vessel, year) ==
    IF ~HasTarget(year) THEN InvalidYear(year)
    ELSE VesselComplianceResult(vessel, year)

\* Variant: the empty pool shows the bar of 2025 whatever the year.
EmptyPoolResult_Bar2025(year, target) ==
        [vessels |-> <<>>,
         summary |->
            [totalVessels |-> 0,
             compliantVessels |-> 0,
             nonCompliantVessels |-> 0,
             complianceRate |-> 0,
             totalEnergyConsumption |-> 0,
             totalEmissions |-> 0,
             poolEnergyDeficit |-> 0,
             poolEnergySurplus |-> 0,
             netEnergyDeficit |-> 0,
             netEnergySurplus |-> 0,
             poolComplianceBalance |-> 0,
             poolComplianceDeficit |-> 0,
             poolComplianceSurplus |-> 0,
             poolPotentialPenalty |-> 0,
             poolAverageIntensity |-> 0,
             poolTargetIntensity |-> TargetIntensity(calc.complianceTargets[2025]),
             poolDeviation |-> 0,
             poolCompliant |-> TRUE,
             poolComplianceScore |-> 0,
             totalPotentialPenalty |-> 0,
             totalVesselPenalties |-> 0,
             complianceYear |-> year,
             reductionTarget |-> target * 10]]

\* The record getEmptyPoolResult builds around its target.
EmptyPoolResult(year, target) ==
        [vessels |-> <<>>,
         summary |->
            [totalVessels |-> 0,
             compliantVessels |-> 0,
             nonCompliantVessels |-> 0,
             complianceRate |-> 0,
             totalEnergyConsumption |-> 0,
             totalEmissions |-> 0,
             poolEnergyDeficit |-> 0,
             poolEnergySurplus |-> 0,
             netEnergyDeficit |-> 0,
             netEnergySurplus |-> 0,
             poolComplianceBalance |-> 0,
             poolComplianceDeficit |-> 0,
             poolComplianceSurplus |-> 0,
             poolPotentialPenalty |-> 0,
             poolAverageIntensity |-> 0,
             poolTargetIntensity |-> TargetIntensity(target),
             poolDeviation |-> 0,
             poolCompliant |-> TRUE,
             poolComplianceScore |-> 0,
             totalPotentialPenalty |-> 0,
             totalVesselPenalties |-> 0,
             complianceYear |-> year,
             reductionTarget |-> target * 10]]

\* Variant: the empty pool rejects a year without a target.
getEmptyPoolResult_Strict(year) ==
    IF HasTarget(year) THEN EmptyPoolResult(year, calc.complianceTargets[year])
    ELSE InvalidYear(year)

getEmptyPoolResult(year) ==
    EmptyPoolResult(year, IF HasTarget(year) THEN calc.complianceTargets[year]
                          ELSE calc.complianceTargets[2025])

\* Variant: the intensity is accumulated without its fuel weight.
EmissionsIncrement_Unweighted(vessel) == vessel.ghgIntensity

\* totalEmissions += vessel.fuelConsumption * vessel.ghgIntensity
EmissionsIncrement(vessel) == vessel.fuelConsumption * vessel.ghgIntensity

\* Variant: the deficit is accumulated with its sign.
DeficitIncrement_Signed(complianceBalance) ==
    IF complianceBalance < 0 THEN complianceBalance ELSE 0

\* if (result.complianceBalance < 0) totalDeficitFromVessels += Math.abs(...)
DeficitIncrement(complianceBalance) ==
    IF complianceBalance < 0 THEN Abs(complianceBalance) ELSE 0

\* else if (result.complianceBalance > 0) totalSurplusFromVessels += ...
SurplusIncrement(complianceBalance) ==
    IF complianceBalance < 0 THEN 0
    ELSE IF complianceBalance > 0 THEN complianceBalance ELSE 0

\* Variant: every vessel is counted as compliant.
CompliantIncrement_Always(status) == 1

\* if (result.status === 'compliant') compliantCount++
CompliantIncrement(status) == IF status = "compliant" THEN 1 ELSE 0

\* else nonCompliantCount++
NonCompliantIncrement(status) == IF status = "compliant" THEN 0 ELSE 1

\* One pass of the map callback: the accumulators a after vessel and its result r.
AccumulateStep(a, vessel, r) ==
    [totalEnergyConsumption |-> a.totalEnergyConsumption + vessel.fuelConsumption,
     totalEmissions |-> a.totalEmissions + EmissionsIncrement(vessel),
     totalEnergyDeficit |-> a.totalEnergyDeficit + r.energyDeficit,
     totalEnergySurplus |-> a.totalEnergySurplus + r.energySurplus,
     totalComplianceBalance |-> a.totalComplianceBalance + r.complianceBalance,
     totalPotentialPenalty |-> a.totalPotentialPenalty + r.potentialPenalty,
     totalDeficitFromVessels |->
         a.totalDeficitFromVessels + DeficitIncrement(r.complianceBalance),
     totalSurplusFromVessels |->
         a.totalSurplusFromVessels + SurplusIncrement(r.complianceBalance),
     compliantCount |-> a.compliantCount + CompliantIncrement(r.status),
     nonCompliantCount |-> a.nonCompliantCount + NonCompliantIncrement(r.status)]

\* The accumulators of calculatePoolCompliance after the first n vessels.
RECURSIVE Accumulate(_, _, _)
Accumulate(vessels, vesselResults, n) ==
    IF n = 0
    THEN [totalEnergyConsumption |-> 0, totalEmissions |-> 0,
          totalEnergyDeficit |-> 0, totalEnergySurplus |-> 0,
          totalComplianceBalance |-> 0, totalPotentialPenalty |-> 0,
          compliantCount |-> 0, nonCompliantCount |-> 0,
          totalDeficitFromVessels |-> 0, totalSurplusFromVessels |-> 0]
    ELSE AccumulateStep(Accumulate(vessels, vesselResults, n - 1),
                        vessels[n], vesselResults[n])

\* poolCompliant = totalComplianceBalance >= 0
PoolCompliant(a) == a.totalComplianceBalance >= 0

\* Number(poolComplianceScore.toFixed(1)), in 0.1
PoolScoreToFixed(poolComplianceScore) ==
    poolComplianceScore.whole * 10
    + ToFixed(poolComplianceScore.num * 10, poolComplianceScore.den)

\* The value of n / 0: 0/0 is NaN, anything else an infinity of the sign of n.
NonFinite(n) ==
    IF n = 0 THEN "NaN" ELSE IF n > 0 THEN "Infinity" ELSE "-Infinity"

\* totalEmissions / totalEnergyConsumption as num/den with den >= 0; den is 0
\* when the fuel of the pool sums to zero, and the quotient is then not finite.
PoolAverageIntensity(a) ==
    IF a.totalEnergyConsumption < 0
    THEN [num |-> -a.totalEmissions, den |-> -a.totalEnergyConsumption]
    ELSE [num |-> a.totalEmissions, den |-> a.totalEnergyConsumption]

\* Number((n / d).toFixed(k)) in units of unit, for d >= 0: toFixed of NaN or of
\* an infinity gives its name, and Number reads it back.
QuotientToFixed(n, d, unit) ==
    IF d = 0 THEN NonFinite(n) ELSE ToFixed(n, d) * unit

\* Number(calculateComplianceScore(poolAverageIntensity, target).toFixed(1)):
\* NaN fails the comparison and passes through Math.max; +Infinity gives
\* max(0, -Infinity), -Infinity gives min(100, Infinity).
PoolComplianceScore(avg, poolTargetIntensity) ==
    IF avg.den = 0
    THEN IF avg.num = 0 THEN "NaN" ELSE IF avg.num > 0 THEN 0 ELSE 1000
    ELSE PoolScoreToFixed(calculateComplianceScore(avg.num, avg.den,
                                                   poolTargetIntensity))

\* Variant: the pool is charged for its gross deficit, surpluses not set off.
PoolPotentialPenalty_Gross(a, year) ==
    ToFixed(a.totalDeficitFromVessels * PenaltyRate(year), 1000000)

\* totalComplianceBalance < 0 ? Number((abs(...) * rate / 1000000).toFixed(2)) : 0
PoolPotentialPenalty(a, year) ==
    IF a.totalComplianceBalance < 0
    THEN ToFixed(Abs(a.totalComplianceBalance) * PenaltyRate(year), 1000000)
    ELSE 0

\* The record calculatePoolCompliance returns, built from its accumulators a.
PoolFields(vessels, year, vesselResults, a, target, poolTargetIntensity) ==
    [vessels |-> vesselResults,
     summary |->
        [totalVessels |-> Len(vessels),
         compliantVessels |-> a.compliantCount,
         nonCompliantVessels |-> a.nonCompliantCount,
         complianceRate |-> ToFixed(a.compliantCount * 1000, Len(vessels)),
         totalEnergyConsumption |-> ToFixed(a.totalEnergyConsumption, 1),
         totalEmissions |-> ToFixed(a.totalEmissions, 10),
         poolEnergyDeficit |-> ToFixed(a.totalEnergyDeficit, 10000),
         poolEnergySurplus |-> ToFixed(a.totalEnergySurplus, 10000),
         netEnergyDeficit |->
             ToFixed(Max(0, a.totalEnergyDeficit - a.totalEnergySurplus), 10000),
         netEnergySurplus |->
             ToFixed(Max(0, a.totalEnergySurplus - a.totalEnergyDeficit), 10000),
         poolComplianceBalance |-> ToFixed(a.totalComplianceBalance, 1),
         poolComplianceDeficit |-> ToFixed(a.totalDeficitFromVessels, 1),
         poolComplianceSurplus |-> ToFixed(a.totalSurplusFromVessels, 1),
         poolAverageIntensity |->
             QuotientToFixed(PoolAverageIntensity(a).num,
                             100 * PoolAverageIntensity(a).den, 100),
         poolTargetIntensity |-> ToFixed(poolTargetIntensity, 100) * 100,
         poolDeviation |->
             QuotientToFixed(PoolAverageIntensity(a).num
                                 - poolTargetIntensity * PoolAverageIntensity(a).den,
                             100 * PoolAverageIntensity(a).den, 100),
         poolCompliant |-> PoolCompliant(a),
         poolComplianceScore |->
             PoolComplianceScore(PoolAverageIntensity(a), poolTargetIntensity),
         poolPotentialPenalty |-> PoolPotentialPenalty(a, year),
         totalPotentialPenalty |-> ToFixed(a.totalPotentialPenalty, 1),
         complianceYear |-> year,
         reductionTarget |-> ToFixed(target * 10, 1)]]

\* The index of the first vessel whose callback throws, 0 if none does.
FirstThrow(vesselResults) ==
    IF \A i \in DOMAIN vesselResults : ~IsError(vesselResults[i]) THEN 0
    ELSE CHOOSE i \in DOMAIN vesselResults :
             /\ IsError(vesselResults[i])
             /\ \A j \in 1..(i - 1) : ~IsError(vesselResults[j])

\* calculatePoolCompliance from the results of its map callback on.
PoolOf(vessels, year, vesselResults, thrown) ==
    IF thrown # 0 THEN vesselResults[thrown]
    ELSE PoolFields(vessels, year, vesselResults,
                    Accumulate(vessels, vesselResults, Len(vessels)),
                    calc.complianceTargets[year],
                    TargetIntensity(calc.complianceTargets[year]))

\* vessels.map(vessel => this.calculateVesselCompliance(vessel, year))
MapVessels(vessels, year) ==
    [i \in 1..Len(vessels) |-> calculateVesselCompliance(vessels[i], year)]

calculatePoolCompliance(vessels, year) ==
    IF Len(vessels) = 0 THEN getEmptyPoolResult(year)
    ELSE PoolOf(vessels, year, MapVessels(vessels, year),
                FirstThrow(MapVessels(vessels, year)))

\* Variant: every entry shows the target intensity of 2025.
TrendEntry_Bar2025(year, compliance) ==
    [year |-> year,
     complianceRate |-> compliance.summary.complianceRate,
     poolCompliant |-> compliance.summary.poolCompliant,
     totalPenalty |-> compliance.summary.totalPotentialPenalty,
     reductionTarget |-> compliance.summary.reductionTarget,
     poolAverageIntensity |-> compliance.summary.poolAverageIntensity,
     poolTargetIntensity |-> TargetIntensity(calc.complianceTargets[2025])]

\* trendData.push({year, ...}) from the pool result of that year
TrendEntry(year, compliance) ==
    [year |-> year,
     complianceRate |-> compliance.summary.complianceRate,
     poolCompliant |-> compliance.summary.poolCompliant,
     totalPenalty |-> compliance.summary.totalPotentialPenalty,
     reductionTarget |-> compliance.summary.reductionTarget,
     poolAverageIntensity |-> compliance.summary.poolAverageIntensity,
     poolTargetIntensity |-> compliance.summary.poolTargetIntensity]

\* The loop of calculateComplianceTrend from year on; a thrown error ends it.
RECURSIVE TrendFrom(_, _, _)
TrendFrom(vessels, year, endYear) ==
    IF year > endYear THEN <<>>
    ELSE IF HasTarget(year)
         THEN IF Len(vessels) > 0 /\ FirstThrow(MapVessels(vessels, year)) # 0
              THEN <<calculatePoolCompliance(vessels, year)>>
              ELSE <<TrendEntry(year, calculatePoolCompliance(vessels, year))>>
                   \o TrendFrom(vessels, year + 1, endYear)
         ELSE TrendFrom(vessels, year + 1, endYear)

\* The value of the call: trendData, or the error thrown inside the loop.
TrendOutcome(trendData) ==
    IF \E i \in 1..Len(trendData) : IsError(trendData[i])
    THEN trendData[Len(trendData)]
    ELSE [trendData |-> trendData]

calculateComplianceTrend(vessels, startYear, endYear) ==
    TrendOutcome(TrendFrom(vessels, startYear, endYear))

\* Variant: the reduction is measured against the target intensity.
ReductionPercentLeq_OfTarget(requiredReduction, ghgIntensity, percent) ==
    requiredReduction * 100 <= percent * (ghgIntensity - requiredReduction)

\* requiredReduction / ghgIntensity * 100 <= percent, for ghgIntensity > 0
ReductionPercentLeq(requiredReduction, ghgIntensity, percent) ==
    requiredReduction * 100 <= percent * ghgIntensity

\* The recommendations of the tier requiredReductionPercent falls in.
Tier(requiredReduction, ghgIntensity) ==
    IF ReductionPercentLeq(requiredReduction, ghgIntensity, 5)
    THEN <<[text |-> "operational efficiency improvements"],
           [text |-> "energy management systems"]>>
    ELSE IF ReductionPercentLeq(requiredReduction, ghgIntensity, 15)
    THEN <<[text |-> "alternative fuel blending"],
           [text |-> "more efficient marine engines"],
           [text |-> "energy recovery systems"]>>
    ELSE <<[text |-> "Significant fuel transition required"],
           [text |-> "vessel retrofit or replacement"],
           [text |-> "comprehensive decarbonization strategy"]>>

\* suggestImprovements for a non-compliant vessel
Suggestions(vessel, status, targetIntensity, requiredReduction) ==
    [status |-> status,
     requiredReduction |-> ToFixed(requiredReduction, 100) * 100,
     requiredReductionPercent |-> RatioToFixed(requiredReduction, vessel.ghgIntensity, 3),
     targetIntensity |-> ToFixed(targetIntensity, 100) * 100,
     suggestions |->
         Append(Tier(requiredReduction, vessel.ghgIntensity),
                [text |-> "Target",
                 percent |-> RatioToFixed(requiredReduction, vessel.ghgIntensity, 3),
                 intensity |-> ToFixed(targetIntensity, 100) * 100])]

\* suggestImprovements from the vessel's compliance record on
SuggestFor(vessel, year, compliance) ==
    IF IsError(compliance) THEN compliance
    ELSE IF compliance.status = "compliant"
    THEN [status |-> "compliant",
          suggestions |-> <<[text |-> "Vessel is already compliant"]>>]
    ELSE Suggestions(vessel, compliance.status,
                     TargetIntensity(calc.complianceTargets[year]),
                     vessel.ghgIntensity - TargetIntensity(calc.complianceTargets[year]))

suggestImprovements(vessel, year) ==
    SuggestFor(vessel, year, calculateVesselCompliance(vessel, year))

\* The record calculateBankingBorrowing returns, built from the two capacities.
BankingFields(vessel, bankingCapacity, borrowingCapacity) ==
    [canBank |-> bankingCapacity > 0,
     bankingCapacity |-> ToFixed(bankingCapacity, 1),
     canBorrow |-> borrowingCapacity > 0,
     borrowingCapacity |-> ToFixed(borrowingCapacity, 1),
     bankingLimitMJ |-> ToFixed(vessel.fuelConsumption * calc.bankingLimit * 10, 1),
     borrowingLimitMJ |-> ToFixed(vessel.fuelConsumption * calc.borrowingLimit * 10, 1)]

\* Variant: any positive energy gives the whole limit.
Capacity_WholeLimit(energy, fuelConsumption, limit) ==
    IF energy > 0 THEN fuelConsumption * limit * 10 ELSE 0

\* energy > 0 ? Math.min(energy, vessel.fuelConsumption * limit) : 0
Capacity(energy, fuelConsumption, limit) ==
    IF energy > 0 THEN Min(energy, fuelConsumption * limit * 10) ELSE 0

\* calculateBankingBorrowing from the vessel's compliance record on
BankingFor(vessel, compliance) ==
    IF IsError(compliance) THEN compliance
    ELSE BankingFields(vessel,
             Capacity(compliance.energySurplus, vessel.fuelConsumption, calc.bankingLimit),
             Capacity(compliance.energyDeficit, vessel.fuelConsumption, calc.borrowingLimit))

calculateBankingBorrowing(vessel, year) ==
    BankingFor(vessel, calculateVesselCompliance(vessel, year))

\* No vessel given
Null == [null |-> TRUE]

\* validateInputs: the list of the messages of the checks that fail
validateInputs(vessel, year) ==
    IF vessel = Null THEN <<"Vessel data is required">>
    ELSE (IF vessel.fuelConsumption <= 0
          THEN <<"Valid fuel consumption is required">> ELSE <<>>)
         \o (IF vessel.ghgIntensity <= 0
             THEN <<"Valid GHG intensity is required">> ELSE <<>>)
         \o (IF ~HasTarget(year) THEN <<"Invalid compliance year">> ELSE <<>>)

\* The years of the target table in the order Object.keys lists them
TableYears ==
    [i \in 1..Cardinality(DOMAIN calc.complianceTargets) |->
        i - 1 + CHOOSE y \in DOMAIN calc.complianceTargets :
                    \A z \in DOMAIN calc.complianceTargets : y <= z]

\* getAvailableYears; targetPercent, a string of one decimal, in 0.1
getAvailableYears ==
    [i \in DOMAIN TableYears |->
        [year |-> TableYears[i],
         target |-> calc.complianceTargets[TableYears[i]],
         targetPercent |-> ToFixed(calc.complianceTargets[TableYears[i]] * 10, 1)]]

\* Variant: the call writes a status into each record it is given.
VesselsAfterCall_Stamped(given) ==
    [i \in 1..Len(given) |-> Spread([status |-> "checked"], given[i])]

\* The records of the caller after a call: every operation builds new
\* records ({ ...vessel, ... }, vessels.map) and assigns to no field of a
\* record it is given.
VesselsAfterCall(given) == given

(***************************************************************************)
(* The data the managers start with                                        *)
(***************************************************************************)
\* A record of the sample data, with its identity fields and its stored status.
SampleVessel ==
    [id |-> 2, name |-> "Nordic Carrier", imo |-> "2345678", type |-> "bulk",
     fuelConsumption |-> 32, ghgIntensity |-> 938500, status |-> "at-risk",
     owner |-> "user1", pool |-> "Pool A"]

\* VesselManager.loadSampleData, fuel in 1000 MJ and intensity in 0.0001 g
SampleData ==
    <<[id |-> 1, name |-> "Atlantic Explorer", imo |-> "1234567",
       type |-> "container", fuelConsumption |-> 45, ghgIntensity |-> 892500,
       status |-> "compliant", owner |-> "user1", pool |-> "Pool A"],
      SampleVessel,
      [id |-> 3, name |-> "Med Princess", imo |-> "3456789",
       type |-> "passenger", fuelConsumption |-> 28, ghgIntensity |-> 951200,
       status |-> "non-compliant", owner |-> "user2", pool |-> "Pool B"],
      [id |-> 4, name |-> "Pacific Trader", imo |-> "4567890",
       type |-> "container", fuelConsumption |-> 52, ghgIntensity |-> 875500,
       status |-> "compliant", owner |-> "user2", pool |-> "Pool B"],
      [id |-> 5, name |-> "Baltic Voyager", imo |-> "5678901",
       type |-> "tanker", fuelConsumption |-> 38, ghgIntensity |-> 912800,
       status |-> "at-risk", owner |-> "admin", pool |-> "Pool A"]>>

\* PoolManager.initializeSamplePools
SamplePools ==
    [name \in {"Pool A", "Pool B"} |->
        [name |-> name, manager |-> "admin", vesselCount |-> 0,
         readOnly |-> FALSE]]

\* this.getVesselsByPool(poolName).length
CountInPool(list, poolName) ==
    Cardinality({i \in 1..Len(list) : list[i].pool = poolName})

\* PoolManager.updateVesselCount: a pool that does not exist is left out
updateVesselCount(ps, poolName, count) ==
    IF poolName \in DOMAIN ps
    THEN [ps EXCEPT ![poolName].vesselCount = count]
    ELSE ps

\* VesselManager.updatePoolVesselCount
updatePoolVesselCount(ps, list, poolName) ==
    updateVesselCount(ps, poolName, CountInPool(list, poolName))

\* VesselManager.updateAllPoolVesselCounts; each pass touches one pool only
updateAllPoolVesselCounts(ps, list) ==
    [name \in DOMAIN ps |-> updatePoolVesselCount(ps, list, name)[name]]

AdminPermissions ==
    <<"create_pool", "delete_pool", "create_vessel", "edit_all_vessels",
      "delete_vessel">>

UserPermissions == <<"create_vessel", "edit_own_vessels">>

\* UserManager.initializeDefaultUsers
DefaultUsers ==
    [id \in {"admin", "user1", "user2"} |->
        [id |-> id,
         role |-> IF id = "admin" THEN "admin" ELSE "user",
         pools |-> IF id = "admin" THEN <<"Pool A", "Pool B">>
                   ELSE IF id = "user1" THEN <<"Pool A">> ELSE <<"Pool B">>,
         name |-> IF id = "admin" THEN "System Administrator"
                  ELSE IF id = "user1" THEN "User One" ELSE "User Two",
         permissions |-> IF id = "admin" THEN AdminPermissions
                         ELSE UserPermissions]]

\* The users AuthManager is constructed with
DefaultAuthUsers ==
    [id \in {"admin", "user1", "user2"} |->
        [password |-> IF id = "admin" THEN "admin123" ELSE "user123",
         role |-> IF id = "admin" THEN "admin" ELSE "user",
         pools |-> IF id = "admin" THEN <<"Pool A", "Pool B">>
                   ELSE IF id = "user1" THEN <<"Pool A">> ELSE <<"Pool B">>]]

(***************************************************************************)
(* State machine: the caller assembles the vessel list, then invokes one   *)
(* public operation of the engine on it.                                   *)
(***************************************************************************)
Init ==
    /\ calc = ComplianceCalculator
    /\ op = "new"
    /\ argVessels = <<>>
    /\ argYear = 0
    /\ argEndYear = 0
    /\ result = [none |-> TRUE]
    /\ calls = 0
    /\ fleet = SampleData
    /\ pools = updateAllPoolVesselCounts(SamplePools, SampleData)
    /\ users = DefaultUsers
    /\ authUsers = DefaultAuthUsers

\* The caller puts one more vessel record on the list it is going to pass.
SupplyVessel ==
    \E vessel \in VesselRecords :
        /\ op = "new"
        /\ Len(argVessels) < MaxVessels
        /\ argVessels' = Append(argVessels, vessel)
        /\ UNCHANGED <<calc, op, argYear, argEndYear, result, calls>>
        /\ UNCHANGED <<fleetVars, userVars>>

CalculateVesselCompliance ==
    \E year \in Years :
        /\ op = "new"
        /\ Len(argVessels) = 1
        /\ op' = "calculateVesselCompliance"
        /\ argYear' = year
        /\ result' = calculateVesselCompliance(argVessels[1], year)
        /\ argVessels' = VesselsAfterCall(argVessels)
        /\ calls' = calls + 1
        /\ UNCHANGED <<calc, argEndYear, fleetVars, userVars>>

CalculatePoolCompliance ==
    \E year \in Years :
        /\ op = "new"
        /\ op' = "calculatePoolCompliance"
        /\ argYear' = year
        /\ result' = calculatePoolCompliance(argVessels, year)
        /\ argVessels' = VesselsAfterCall(argVessels)
        /\ calls' = calls + 1
        /\ UNCHANGED <<calc, argEndYear, fleetVars, userVars>>

CalculateComplianceTrend ==
    \E startYear \in Years, endYear \in Years :
        /\ op = "new"
        /\ Len(argVessels) <= MaxTrendVessels
        /\ op' = "calculateComplianceTrend"
        /\ argYear' = startYear
        /\ argEndYear' = endYear
        /\ result' = calculateComplianceTrend(argVessels, startYear, endYear)
        /\ argVessels' = VesselsAfterCall(argVessels)
        /\ calls' = calls + 1
        /\ UNCHANGED <<calc, fleetVars, userVars>>

SuggestImprovements ==
    \E year \in Years :
        /\ op = "new"
        /\ Len(argVessels) = 1
        /\ op' = "suggestImprovements"
        /\ argYear' = year
        /\ result' = suggestImprovements(argVessels[1], year)
        /\ argVessels' = VesselsAfterCall(argVessels)
        /\ calls' = calls + 1
        /\ UNCHANGED <<calc, argEndYear, fleetVars, userVars>>

CalculateBankingBorrowing ==
    \E year \in Years :
        /\ op = "new"
        /\ Len(argVessels) = 1
        /\ op' = "calculateBankingBorrowing"
        /\ argYear' = year
        /\ result' = calculateBankingBorrowing(argVessels[1], year)
        /\ argVessels' = VesselsAfterCall(argVessels)
        /\ calls' = calls + 1
        /\ UNCHANGED <<calc, argEndYear, fleetVars, userVars>>

Next ==
    \/ SupplyVessel
    \/ CalculateVesselCompliance
    \/ CalculatePoolCompliance
    \/ CalculateComplianceTrend
    \/ SuggestImprovements
    \/ CalculateBankingBorrowing

Spec == Init /\ [][Next]_vars

(***************************************************************************)
(* The same engine on pools of vessels at the edges of the input range.    *)
(***************************************************************************)
\* A vessel whose deficit, 3.94 t in 2025, carries half of the smallest penalty
\* that shows at two decimals.
HalfPenaltyVessel == [fuelConsumption |-> 28, ghgIntensity |-> 2300000]

\* A vessel whose deficit, 8.70 t in 2025, carries a penalty of 0.01 million.
PenaltyVessel == [fuelConsumption |-> 28, ghgIntensity |-> 4000000]

\* Records the engine does not reject: no fuel, negative fuel, no intensity,
\* negative intensity.
ZeroFuelVessel == [fuelConsumption |-> 0, ghgIntensity |-> 951200]

NegativeFuelVessel == [fuelConsumption |-> -28, ghgIntensity |-> 951200]

ZeroGhgVessel == [fuelConsumption |-> 28, ghgIntensity |-> 0]

NegativeGhgVessel == [fuelConsumption |-> 28, ghgIntensity |-> -300000]

DegenerateRecords ==
    {ZeroFuelVessel, NegativeFuelVessel, ZeroGhgVessel, NegativeGhgVessel}

EdgeRecords ==
    {HalfPenaltyVessel, PenaltyVessel, LargeCleanVessel, SampleVessel}
        \cup DegenerateRecords

SupplyEdgeVessel ==
    \E vessel \in EdgeRecords :
        /\ op = "new"
        /\ Len(argVessels) < MaxVessels
        /\ argVessels' = Append(argVessels, vessel)
        /\ UNCHANGED <<calc, op, argYear, argEndYear, result, calls>>
        /\ UNCHANGED <<fleetVars, userVars>>

NextEdge ==
    \/ SupplyEdgeVessel
    \/ CalculateVesselCompliance
    \/ CalculatePoolCompliance

SpecEdge == Init /\ [][NextEdge]_vars

(***************************************************************************)
(* The engine called again and again by one caller on the list it keeps.   *)
(***************************************************************************)
MaxCalls == 3

CallRecords == {SampleVessel, PenaltyVessel, LargeCleanVessel}

SupplyCallVessel ==
    \E vessel \in CallRecords :
        /\ op = "new"
        /\ Len(argVessels) < MaxVessels
        /\ argVessels' = Append(argVessels, vessel)
        /\ UNCHANGED <<calc, op, argYear, argEndYear, result, calls>>
        /\ UNCHANGED <<fleetVars, userVars>>

ValidateInputs ==
    \E year \in Years :
        /\ op = "new"
        /\ Len(argVessels) <= 1
        /\ op' = "validateInputs"
        /\ argYear' = year
        /\ result' = [errors |->
                        validateInputs(IF Len(argVessels) = 0 THEN Null
                                       ELSE argVessels[1], year)]
        /\ argVessels' = VesselsAfterCall(argVessels)
        /\ calls' = calls + 1
        /\ UNCHANGED <<calc, argEndYear, fleetVars, userVars>>

GetAvailableYears ==
    /\ op = "new"
    /\ op' = "getAvailableYears"
    /\ result' = [years |-> getAvailableYears]
    /\ argVessels' = VesselsAfterCall(argVessels)
    /\ calls' = calls + 1
    /\ UNCHANGED <<calc, argYear, argEndYear, fleetVars, userVars>>

\* The caller takes the result and is ready for its next call.
Return ==
    /\ op # "new"
    /\ calls < MaxCalls
    /\ op' = "new"
    /\ argYear' = 0
    /\ argEndYear' = 0
    /\ result' = [none |-> TRUE]
    /\ UNCHANGED <<calc, argVessels, calls, fleetVars, userVars>>

NextCalls ==
    \/ SupplyCallVessel
    \/ CalculateVesselCompliance
    \/ CalculatePoolCompliance
    \/ CalculateComplianceTrend
    \/ SuggestImprovements
    \/ CalculateBankingBorrowing
    \/ ValidateInputs
    \/ GetAvailableYears
    \/ Return

SpecCalls == Init /\ [][NextCalls]_vars

(***************************************************************************)
(* VesselManager and its PoolManager. Every operation is called without a  *)
(* currentUser, the default of the parameter, so the permission checks are *)
(* skipped as in the code.                                                 *)
(***************************************************************************)
MaxFleet == 6

\* The values of Date.now() + Math.floor(Math.random() * 1000) of the model:
\* two vessels added within a second may draw the same id.
NewIds == {6, 7}

\* The ids the caller selects vessels with
SelectableIds == {1, 3, 6, 99}

Aurora ==
    [name |-> "Aurora", imo |-> "1111111", type |-> "tanker",
     fuelConsumption |-> 40, ghgIntensity |-> 900000,
     pool |-> "Pool A", owner |-> "user1"]

Borealis ==
    [name |-> "Borealis", imo |-> "2222222", type |-> "bulk",
     fuelConsumption |-> 30, ghgIntensity |-> 880000,
     pool |-> "Pool B", owner |-> "user2"]

\* Vessel data addVessel accepts or rejects
NewVessels ==
    {Aurora, Borealis,
     [Aurora EXCEPT !.pool = "Pool C"],
     [Aurora EXCEPT !.imo = "1234567"],
     [Aurora EXCEPT !.imo = "12345"],
     [Borealis EXCEPT !.owner = "user1"],
     [Borealis EXCEPT !.owner = "nobody"],
     [Borealis EXCEPT !.fuelConsumption = 0],
     [Borealis EXCEPT !.ghgIntensity = -880000]}

\* The values of the model that match /^\d{7}$/
SevenDigits == {"1111111", "2222222", "1234567", "2345678", "3456789",
                "4567890", "5678901", "7777777"}

\* The changes updateVessel is called with
Updates ==
    {[pool |-> "Pool A"], [pool |-> "Pool B"], [pool |-> "Pool C"],
     [fuelConsumption |-> -5]}

\* The id lists of the bulk operations
BulkIdLists == {<<1, 3>>, <<6, 99>>, <<99>>}

\* The files importFromJSON is given: their vessels arrays
ImportFiles ==
    {<<[Aurora EXCEPT !.imo = "7777777", !.pool = "Pool B"]>>,
     <<Borealis, [Aurora EXCEPT !.name = ""]>>}

\* !vesselData[field] is false for a text field, for a number field
HasText(data, field) == field \in DOMAIN data /\ data[field] # ""

HasNumber(data, field) == field \in DOMAIN data /\ data[field] # 0

\* No field of requiredFields is missing
RequiredFieldsPresent(data) ==
    /\ HasText(data, "name")
    /\ HasText(data, "imo")
    /\ HasText(data, "type")
    /\ HasNumber(data, "fuelConsumption")
    /\ HasNumber(data, "ghgIntensity")

Elements(seq) == {seq[i] : i \in 1..Len(seq)}

\* PoolManager.poolExists
poolExists(ps, poolName) == poolName \in DOMAIN ps

\* UserManager.canUserAccessPool
canUserAccessPool(us, userId, poolName) ==
    /\ userId \in DOMAIN us
    /\ us[userId].role = "admin" \/ poolName \in Elements(us[userId].pools)

\* The error addVessel throws for vesselData, "none" if it throws none
addVesselError(list, ps, us, vesselData) ==
    IF ~RequiredFieldsPresent(vesselData) THEN "Missing required fields"
    ELSE IF ~("pool" \in DOMAIN vesselData /\ poolExists(ps, vesselData.pool))
    THEN "Pool does not exist"
    ELSE IF HasText(vesselData, "owner") /\ vesselData.owner \notin DOMAIN us
    THEN "User does not exist"
    ELSE IF /\ HasText(vesselData, "owner")
            /\ ~canUserAccessPool(us, vesselData.owner, vesselData.pool)
    THEN "User doesn't have access to pool"
    ELSE IF \E i \in 1..Len(list) : list[i].imo = vesselData.imo
    THEN "Vessel with IMO already exists"
    ELSE IF vesselData.imo \notin SevenDigits
    THEN "IMO number must be exactly 7 digits"
    ELSE IF vesselData.fuelConsumption <= 0
    THEN "Fuel consumption must be greater than 0"
    ELSE IF vesselData.ghgIntensity <= 0
    THEN "GHG intensity must be greater than 0"
    ELSE "none"

\* { id, ...vesselData, status: 'pending' }
NewVessel(id, vesselData) ==
    [status |-> "pending"] @@ vesselData @@ [id |-> id]

\* What an operation that has not thrown leaves in result, and what one that
\* has thrown
Done == [ok |-> TRUE]

Thrown(message) == [error |-> message]

AddVessel ==
    \E vesselData \in NewVessels, id \in NewIds :
        /\ Len(fleet) < MaxFleet
        /\ op' = "addVessel"
        /\ IF addVesselError(fleet, pools, users, vesselData) # "none"
           THEN /\ result' = Thrown(addVesselError(fleet, pools, users, vesselData))
                /\ UNCHANGED fleetVars
           ELSE /\ fleet' = Append(fleet, NewVessel(id, vesselData))
                /\ pools' = updatePoolVesselCount(pools, fleet', vesselData.pool)
                /\ result' = Done
        /\ UNCHANGED <<calc, argVessels, argYear, argEndYear, calls, userVars>>

\* this.vessels.find(v => v.id === vesselId): its index, 0 if there is none
IndexOf(list, vesselId) ==
    IF \E i \in 1..Len(list) : list[i].id = vesselId
    THEN CHOOSE i \in 1..Len(list) :
             /\ list[i].id = vesselId
             /\ \A j \in 1..(i - 1) : list[j].id # vesselId
    ELSE 0

\* this.vessels.filter(v => keep(v)), for the ids in gone
RECURSIVE WithoutIds(_, _)
WithoutIds(list, gone) ==
    IF Len(list) = 0 THEN <<>>
    ELSE IF list[1].id \in gone THEN WithoutIds(Tail(list), gone)
    ELSE <<list[1]>> \o WithoutIds(Tail(list), gone)

RemoveVessel ==
    \E vesselId \in SelectableIds :
        /\ op' = "removeVessel"
        /\ IF IndexOf(fleet, vesselId) = 0
           THEN /\ result' = Thrown("Vessel not found")
                /\ UNCHANGED fleetVars
           ELSE /\ fleet' = WithoutIds(fleet, {vesselId})
                /\ pools' = updatePoolVesselCount(pools, fleet',
                                fleet[IndexOf(fleet, vesselId)].pool)
                /\ result' = Done
        /\ UNCHANGED <<calc, argVessels, argYear, argEndYear, calls, userVars>>

\* updates.pool && updates.pool !== vessel.pool
PoolChanges(vessel, updates) ==
    HasText(updates, "pool") /\ updates.pool # vessel.pool

\* The error updateVessel throws, "none" if it throws none
updateVesselError(list, ps, vesselId, updates) ==
    IF IndexOf(list, vesselId) = 0 THEN "Vessel not found"
    ELSE IF /\ PoolChanges(list[IndexOf(list, vesselId)], updates)
            /\ ~poolExists(ps, updates.pool)
    THEN "Pool does not exist"
    ELSE IF HasNumber(updates, "fuelConsumption") /\ updates.fuelConsumption <= 0
    THEN "Fuel consumption must be greater than 0"
    ELSE IF HasNumber(updates, "ghgIntensity") /\ updates.ghgIntensity <= 0
    THEN "GHG intensity must be greater than 0"
    ELSE "none"

\* Object.assign(vessel, updates)
Assigned(list, i, updates) == [list EXCEPT ![i] = updates @@ list[i]]

\* The pools after updateVessel has assigned: both counts are refreshed if the
\* pool changed
PoolsAfterUpdate(ps, list, oldPool, vessel, updates) ==
    IF HasText(updates, "pool") /\ updates.pool # oldPool
    THEN updatePoolVesselCount(updatePoolVesselCount(ps, list, oldPool),
                               list, updates.pool)
    ELSE ps

\* updateVessel on the list and the pools: the two after the call, and the
\* error thrown
updateVessel(list, ps, vesselId, updates) ==
    IF updateVesselError(list, ps, vesselId, updates) # "none"
    THEN [fleet |-> list, pools |-> ps,
          error |-> updateVesselError(list, ps, vesselId, updates)]
    ELSE [fleet |-> Assigned(list, IndexOf(list, vesselId), updates),
          pools |-> PoolsAfterUpdate(ps,
                        Assigned(list, IndexOf(list, vesselId), updates),
                        list[IndexOf(list, vesselId)].pool,
                        list[IndexOf(list, vesselId)], updates),
          error |-> "none"]

\* updateVessel, and moveVesselToPool when the update is a pool
UpdateVessel ==
    \E vesselId \in SelectableIds, updates \in Updates :
        /\ op' = "updateVessel"
        /\ fleet' = updateVessel(fleet, pools, vesselId, updates).fleet
        /\ pools' = updateVessel(fleet, pools, vesselId, updates).pools
        /\ result' = IF updateVessel(fleet, pools, vesselId, updates).error = "none"
                     THEN Done
                     ELSE Thrown(updateVessel(fleet, pools, vesselId, updates).error)
        /\ UNCHANGED <<calc, argVessels, argYear, argEndYear, calls, userVars>>

\* bulkMoveToPool: one moveVesselToPool per id, an error is caught and counted
RECURSIVE bulkMoveToPool(_, _, _, _, _)
bulkMoveToPool(list, ps, vesselIds, poolName, moved) ==
    IF Len(vesselIds) = 0 THEN [fleet |-> list, pools |-> ps, moved |-> moved]
    ELSE bulkMoveToPool(
             updateVessel(list, ps, vesselIds[1], [pool |-> poolName]).fleet,
             updateVessel(list, ps, vesselIds[1], [pool |-> poolName]).pools,
             Tail(vesselIds), poolName,
             IF updateVessel(list, ps, vesselIds[1], [pool |-> poolName]).error = "none"
             THEN moved + 1 ELSE moved)

BulkMoveToPool ==
    \E vesselIds \in BulkIdLists, poolName \in {"Pool A", "Pool B", "Pool C"} :
        /\ op' = "bulkMoveToPool"
        /\ fleet' = bulkMoveToPool(fleet, pools, vesselIds, poolName, 0).fleet
        /\ pools' = bulkMoveToPool(fleet, pools, vesselIds, poolName, 0).pools
        /\ result' = [moved |-> bulkMoveToPool(fleet, pools, vesselIds, poolName, 0).moved]
        /\ UNCHANGED <<calc, argVessels, argYear, argEndYear, calls, userVars>>

\* bulkDelete filters the list and saves it; the pools are not touched
BulkDelete ==
    \E vesselIds \in BulkIdLists :
        /\ op' = "bulkDelete"
        /\ fleet' = WithoutIds(fleet, Elements(vesselIds))
        /\ result' = [deleted |-> Len(fleet) - Len(fleet')]
        /\ UNCHANGED <<calc, argVessels, argYear, argEndYear, calls, pools, userVars>>

\* clearAllVessels empties the list and saves it; the pools are not touched
ClearAllVessels ==
    /\ op' = "clearAllVessels"
    /\ fleet' = <<>>
    /\ result' = Done
    /\ UNCHANGED <<calc, argVessels, argYear, argEndYear, calls, pools, userVars>>

\* { ...vessel, id, status: vessel.status || 'pending' }; the id is
\* Date.now() + Math.random() + index
Imported(vessel, index) ==
    [id |-> 10 + index,
     status |-> IF HasText(vessel, "status") THEN vessel.status ELSE "pending"]
        @@ vessel

\* importFromJSON replaces the list and saves it, or throws on the first
\* vessel with a missing field; the pools are not touched
ImportFromJSON ==
    \E file \in ImportFiles :
        /\ op' = "importFromJSON"
        /\ IF \A i \in 1..Len(file) : RequiredFieldsPresent(file[i])
           THEN /\ fleet' = [i \in 1..Len(file) |-> Imported(file[i], i - 1)]
                /\ result' = [success |-> TRUE, imported |-> Len(file)]
           ELSE /\ result' = Thrown("Import failed")
                /\ UNCHANGED fleet
        /\ UNCHANGED <<calc, argVessels, argYear, argEndYear, calls, pools, userVars>>

NextFleet ==
    \/ AddVessel
    \/ RemoveVessel
    \/ UpdateVessel
    \/ BulkMoveToPool
    \/ BulkDelete
    \/ ClearAllVessels
    \/ ImportFromJSON

SpecFleet == Init /\ [][NextFleet]_vars

(***************************************************************************)
(* UserManager and AuthManager, each with its own table of users. The      *)
(* time stamps the operations write (created, lastUpdated) are left out.   *)
(***************************************************************************)
\* The ids the operations are called with
UserIds == {"admin", "user3"}

\* A role of null
NullRole == "null"

\* The data createUser is called with
NewUsers ==
    {[id |-> "user3", name |-> "User Three", role |-> "user",
      pools |-> <<"Pool A">>],
     [id |-> "user3", name |-> "User Three"],
     [id |-> "admin", name |-> "Second Admin", role |-> "user",
      pools |-> <<>>]}

\* The updates UserManager.updateUser is called with: a role, a record that
\* brings an id with it, a null role, no key at all, and no object
UserUpdates ==
    {[role |-> "user"], [role |-> "admin"],
     [id |-> "root", role |-> "user", name |-> "Renamed"],
     [role |-> NullRole], <<>>, Null}

PoolLists == {<<>>}

\* The permissions that go with a role
PermissionsOf(role) == IF role = "admin" THEN AdminPermissions ELSE UserPermissions

\* updates.role is there and is not falsy
HasRole(updates) == "role" \in DOMAIN updates /\ updates.role # NullRole

\* The record createUser stores
CreatedUser(userData) ==
    [id |-> userData.id,
     name |-> userData.name,
     role |-> IF HasRole(userData) THEN userData.role ELSE "user",
     pools |-> IF "pools" \in DOMAIN userData THEN userData.pools ELSE <<>>,
     permissions |-> PermissionsOf(IF "role" \in DOMAIN userData
                                   THEN userData.role ELSE "user")]

CreateUser ==
    \E userData \in NewUsers :
        /\ op' = "UserManager.createUser"
        /\ IF userData.id \in DOMAIN users
           THEN /\ result' = Thrown("User already exists")
                /\ UNCHANGED users
           ELSE /\ users' = (userData.id :> CreatedUser(userData)) @@ users
                /\ result' = Done
        /\ UNCHANGED <<calc, argVessels, argYear, argEndYear, calls>>
        /\ UNCHANGED <<fleetVars, authUsers>>

\* updates = { ...updates, role: 'admin' } when the admin is given another role
ForcedAdminRole(userId, updates) ==
    IF userId = "admin" /\ HasRole(updates) /\ updates.role # "admin"
    THEN [updates EXCEPT !.role = "admin"]
    ELSE updates

\* const { id, ...allowedUpdates } = updates
AllowedUpdates(updates) == [k \in DOMAIN updates \ {"id"} |-> updates[k]]

\* The user after Object.assign and the lines that settle role and permissions
UpdatedUser(user, userId, updates) ==
    IF userId = "admin"
    THEN [AllowedUpdates(ForcedAdminRole(userId, updates)) @@ user
             EXCEPT !.role = "admin", !.permissions = AdminPermissions]
    ELSE IF HasRole(updates)
    THEN [AllowedUpdates(updates) @@ user
             EXCEPT !.permissions = PermissionsOf(updates.role)]
    ELSE AllowedUpdates(updates) @@ user

\* updateUser throws for a user it does not find, and, after it has assigned,
\* for a role key without a role on another user than the admin
updateUserError(us, userId, updates) ==
    IF userId \notin DOMAIN us THEN "User not found"
    ELSE IF updates = Null \/ DOMAIN updates = {} THEN "none"
    ELSE IF userId # "admin" /\ "role" \in DOMAIN updates /\ ~HasRole(updates)
    THEN "Role is not defined"
    ELSE "none"

UpdateUser ==
    \E userId \in UserIds, updates \in UserUpdates :
        /\ op' = "UserManager.updateUser"
        /\ users' = IF userId \in DOMAIN users /\ updates # Null
                       /\ DOMAIN updates # {}
                    THEN [users EXCEPT ![userId] = UpdatedUser(@, userId, updates)]
                    ELSE users
        /\ result' = IF updateUserError(users, userId, updates) = "none"
                     THEN Done
                     ELSE Thrown(updateUserError(users, userId, updates))
        /\ UNCHANGED <<calc, argVessels, argYear, argEndYear, calls>>
        /\ UNCHANGED <<fleetVars, authUsers>>

\* The table without the key userId
Deleted(us, userId) == [k \in DOMAIN us \ {userId} |-> us[k]]

DeleteUser ==
    \E userId \in UserIds :
        /\ op' = "UserManager.deleteUser"
        /\ IF userId \notin DOMAIN users
           THEN /\ result' = Thrown("User not found")
                /\ UNCHANGED users
           ELSE IF userId = "admin"
           THEN /\ result' = Thrown("Cannot delete the admin user")
                /\ UNCHANGED users
           ELSE /\ users' = Deleted(users, userId)
                /\ result' = Done
        /\ UNCHANGED <<calc, argVessels, argYear, argEndYear, calls>>
        /\ UNCHANGED <<fleetVars, authUsers>>

UpdateUserPools ==
    \E userId \in UserIds, poolList \in PoolLists :
        /\ op' = "UserManager.updateUserPools"
        /\ IF userId \notin DOMAIN users
           THEN /\ result' = Thrown("User not found")
                /\ UNCHANGED users
           ELSE /\ users' = [users EXCEPT ![userId].pools = poolList]
                /\ result' = Done
        /\ UNCHANGED <<calc, argVessels, argYear, argEndYear, calls>>
        /\ UNCHANGED <<fleetVars, authUsers>>

\* The data AuthManager.addUser is called with
NewAuthUsers ==
    {[password |-> "secret", role |-> "user", pools |-> <<"Pool A">>],
     [password |-> "secret", pools |-> <<>>]}

\* The updates AuthManager.updateUserData is called with
AuthUpdates ==
    {[role |-> "user"], [password |-> "changed", role |-> "user"]}

\* Variant: the data is stored as it is given.
ProtectedUserData_AsGiven(userId, userData) == userData

\* userData.role = 'admin' when the admin is added with another role or none
ProtectedUserData(userId, userData) ==
    IF userId = "admin" /\ ~("role" \in DOMAIN userData /\ userData.role = "admin")
    THEN [role |-> "admin"] @@ userData
    ELSE userData

AuthAddUser ==
    \E userId \in UserIds, userData \in NewAuthUsers :
        /\ op' = "AuthManager.addUser"
        /\ authUsers' = (userId :> ProtectedUserData(userId, userData)) @@ authUsers
        /\ result' = Done
        /\ UNCHANGED <<calc, argVessels, argYear, argEndYear, calls>>
        /\ UNCHANGED <<fleetVars, users>>

\* Object.assign(this.users[userId], updates) and the double check of the role
UpdatedAuthUser(user, userId, updates) ==
    IF userId = "admin"
    THEN [updates @@ user EXCEPT !.role = "admin"]
    ELSE updates @@ user

AuthUpdateUserData ==
    \E userId \in UserIds, updates \in AuthUpdates :
        /\ op' = "AuthManager.updateUserData"
        /\ authUsers' = IF userId \in DOMAIN authUsers
                        THEN [authUsers EXCEPT
                                 ![userId] = UpdatedAuthUser(@, userId, updates)]
                        ELSE authUsers
        /\ result' = Done
        /\ UNCHANGED <<calc, argVessels, argYear, argEndYear, calls>>
        /\ UNCHANGED <<fleetVars, users>>

AuthDeleteUser ==
    \E userId \in UserIds :
        /\ op' = "AuthManager.deleteUser"
        /\ authUsers' = IF userId # "admin" /\ userId \in DOMAIN authUsers
                        THEN Deleted(authUsers, userId)
                        ELSE authUsers
        /\ result' = Done
        /\ UNCHANGED <<calc, argVessels, argYear, argEndYear, calls>>
        /\ UNCHANGED <<fleetVars, users>>

NextUsers ==
    \/ CreateUser
    \/ UpdateUser
    \/ DeleteUser
    \/ UpdateUserPools
    \/ AuthAddUser
    \/ AuthUpdateUserData
    \/ AuthDeleteUser

SpecUsers == Init /\ [][NextUsers]_vars

(***************************************************************************)
(* Properties                                                              *)
(***************************************************************************)
InTargetTable(year) == year \in 2025..2032

Returned(name) == op = name /\ ~IsError(result)

\* C1: calculateVesselCompliance with a year that is not a key of the target
\* table signals the invalid-year error and returns no record at all.
C1_InvalidYearAborts ==
    (op = "calculateVesselCompliance" /\ ~InTargetTable(argYear))
        => /\ result = [error |-> "Invalid compliance year", year |-> argYear]
           /\ DOMAIN result = {"error", "year"}

C1_Witness ==
    /\ op = "calculateVesselCompliance"
    /\ argYear = 1999
    /\ IsError(result)

TargetOf(year) == IF year <= 2029 THEN 893368 ELSE 856904

\* The vessel a single-vessel operation was called with
TheVessel == argVessels[1]

\* C3: a vessel whose ghgIntensity equals the year's target intensity exactly
\* gets complianceBalance 0, status compliant, score 100 and penalty 0.
C3_ExactlyAtTarget ==
    (Returned("calculateVesselCompliance") /\ TheVessel.ghgIntensity = TargetOf(argYear))
        => /\ result.complianceBalance = 0
           /\ result.status = "compliant"
           /\ result.complianceScore.whole = 100
           /\ result.complianceScore.num = 0
           /\ result.potentialPenalty = 0

C3_Witness ==
    /\ Returned("calculateVesselCompliance")
    /\ argYear = 2030
    /\ TheVessel.ghgIntensity = 856904
    /\ result.complianceScore.whole = 100

\* C4: the status is one of compliant and non-compliant, and it is compliant
\* exactly when (targetIntensity - ghgIntensity) * fuelConsumption >= 0.
C4_TwoStateStatus ==
    Returned("calculateVesselCompliance")
        => /\ result.status \in {"compliant", "non-compliant"}
           /\ result.status = "compliant"
                <=> (TargetOf(argYear) - TheVessel.ghgIntensity)
                        * TheVessel.fuelConsumption >= 0

C4_Witness ==
    /\ Returned("calculateVesselCompliance")
    /\ argYear = 2025
    /\ TheVessel.ghgIntensity = 893368
    /\ result.status = "compliant"

\* C5: energyDeficit is max(0, fuelConsumption * (ghgIntensity - targetIntensity))
\* and energySurplus is max(0, fuelConsumption * (targetIntensity - ghgIntensity)),
\* each at the displayed precision.
C5_DeficitWhenDirtier ==
    Returned("calculateVesselCompliance")
        => /\ result.energyDeficit =
                ToFixed(Max(0, TheVessel.fuelConsumption
                                * (TheVessel.ghgIntensity - TargetOf(argYear))), 10)
           /\ result.energySurplus =
                ToFixed(Max(0, TheVessel.fuelConsumption
                                * (TargetOf(argYear) - TheVessel.ghgIntensity)), 10)

\* C6 as stated: with positive fuelConsumption exactly one of energyDeficit and
\* energySurplus is nonzero, and both are zero only at exact equality.
C6_ExactlyOneUnlessEqual ==
    (Returned("calculateVesselCompliance") /\ TheVessel.fuelConsumption > 0)
        => \/ (result.energyDeficit # 0) # (result.energySurplus # 0)
           \/ /\ result.energyDeficit = 0
              /\ result.energySurplus = 0
              /\ TheVessel.ghgIntensity = TargetOf(argYear)

\* C6 amended: with positive fuelConsumption energyDeficit and energySurplus
\* are never both nonzero, and both are zero exactly when
\* |fuelConsumption * (targetIntensity - ghgIntensity)| is below 0.5, the
\* values that round to 0.
C6_NeverBothNonzero ==
    (Returned("calculateVesselCompliance") /\ TheVessel.fuelConsumption > 0)
        => /\ ~(result.energyDeficit # 0 /\ result.energySurplus # 0)
           /\ (result.energyDeficit = 0 /\ result.energySurplus = 0)
                <=> 2 * Abs((TargetOf(argYear) - TheVessel.ghgIntensity)
                             * TheVessel.fuelConsumption) < 10

C6_Witness ==
    /\ Returned("calculateVesselCompliance")
    /\ TheVessel.fuelConsumption > 0
    /\ TheVessel.ghgIntensity # TargetOf(argYear)
    /\ result.energyDeficit = 0
    /\ result.energySurplus = 0

\* The sum over the first n vessels of one unrounded local of calculateVesselCompliance
RECURSIVE SumOfLocals(_, _, _, _)
SumOfLocals(vessels, year, name, n) ==
    IF n = 0 THEN 0
    ELSE SumOfLocals(vessels, year, name, n - 1) + VesselLocals(vessels[n], year)[name]

\* The sum of the unrounded deficits (sign = -1) or surpluses (sign = 1)
RECURSIVE SumOfSigned(_, _, _, _)
SumOfSigned(vessels, year, sign, n) ==
    IF n = 0 THEN 0
    ELSE SumOfSigned(vessels, year, sign, n - 1)
         + Max(0, sign * VesselLocals(vessels[n], year).complianceBalance)

PoolReturned ==
    Returned("calculatePoolCompliance") /\ Len(argVessels) > 0

\* C7: the pool's balance, gross deficit and surplus, energy totals and total
\* potential penalty are the rounded sums of the unrounded per-vessel values,
\* and poolCompliant is decided on the unrounded net balance.
C7_AggregatesUnrounded ==
    PoolReturned
        => LET n == Len(argVessels)
               net == SumOfLocals(argVessels, argYear, "complianceBalance", n)
               deficit == SumOfSigned(argVessels, argYear, -1, n)
           IN  /\ result.summary.poolComplianceBalance = ToFixed(net, 100000)
               /\ result.summary.poolComplianceDeficit = ToFixed(deficit, 100000)
               /\ result.summary.poolComplianceSurplus =
                      ToFixed(SumOfSigned(argVessels, argYear, 1, n), 100000)
               /\ result.summary.poolEnergyDeficit =
                      ToFixed(SumOfLocals(argVessels, argYear, "energyDeficit", n), 100000)
               /\ result.summary.poolEnergySurplus =
                      ToFixed(SumOfLocals(argVessels, argYear, "energySurplus", n), 100000)
               /\ result.summary.totalPotentialPenalty =
                      ToFixed(MulDivFloor(deficit, PenaltyRate(argYear), 100000), 1000000)
               /\ result.summary.poolCompliant = (net >= 0)

\* C8: poolCompliant is true exactly when the signed sum of the vessels'
\* compliance balances (targetIntensity - ghgIntensity) * fuelConsumption is >= 0.
C8_CompliantIffNetNonNegative ==
    PoolReturned
        => result.summary.poolCompliant
             = (SumOfLocals(argVessels, argYear, "complianceBalance", Len(argVessels)) >= 0)

\* The sum over the vessel records the pool calculation returned
RECURSIVE SumOfReturned(_, _, _)
SumOfReturned(vesselResults, sign, n) ==
    IF n = 0 THEN 0
    ELSE SumOfReturned(vesselResults, sign, n - 1)
         + Max(0, sign * vesselResults[n].complianceBalance)

\* C9: the reported net balance is the reported gross surplus minus the
\* reported gross deficit; the deficit is the sum of |balance| over the returned
\* vessel records with negative balance, the surplus the sum of balance over
\* those with positive balance, and neither is negative.
C9_NetIsSurplusMinusDeficit ==
    Returned("calculatePoolCompliance")
        => LET n == Len(result.vessels)
           IN  /\ result.summary.poolComplianceBalance =
                      result.summary.poolComplianceSurplus
                      - result.summary.poolComplianceDeficit
               /\ result.summary.poolComplianceDeficit = SumOfReturned(result.vessels, -1, n)
               /\ result.summary.poolComplianceSurplus = SumOfReturned(result.vessels, 1, n)
               /\ result.summary.poolComplianceDeficit >= 0
               /\ result.summary.poolComplianceSurplus >= 0

C9_Witness ==
    /\ PoolReturned
    /\ result.summary.poolComplianceDeficit > 0
    /\ result.summary.poolComplianceSurplus > 0
    /\ result.summary.poolComplianceBalance < 0

RECURSIVE SumOfField(_, _, _)
SumOfField(vessels, name, n) ==
    IF n = 0 THEN 0 ELSE SumOfField(vessels, name, n - 1) + vessels[n][name]

RECURSIVE SumOfEmissions(_, _)
SumOfEmissions(vessels, n) ==
    IF n = 0 THEN 0
    ELSE SumOfEmissions(vessels, n - 1) + vessels[n].fuelConsumption * vessels[n].ghgIntensity

\* The fuel-weighted mean differs from the arithmetic mean of the intensities.
MeansDiffer(vessels) ==
    SumOfEmissions(vessels, Len(vessels)) * Len(vessels)
        # SumOfField(vessels, "ghgIntensity", Len(vessels))
          * SumOfField(vessels, "fuelConsumption", Len(vessels))

\* Two vessels of the list differ in intensity and in fuel volume.
DifferentIntensitiesAndFuels(vessels) ==
    \E i, j \in 1..Len(vessels) :
        /\ vessels[i].ghgIntensity # vessels[j].ghgIntensity
        /\ vessels[i].fuelConsumption # vessels[j].fuelConsumption

FuelWeightedMean(vessels) ==
    ToFixed(SumOfEmissions(vessels, Len(vessels)),
            100 * SumOfField(vessels, "fuelConsumption", Len(vessels))) * 100

\* C10 as stated: poolAverageIntensity is the fuel-weighted mean, and that mean
\* differs from the arithmetic mean whenever vessels with different intensities
\* have different fuel volumes.
C10_WeightedAlwaysDiffers ==
    PoolReturned
        => /\ result.summary.poolAverageIntensity = FuelWeightedMean(argVessels)
           /\ DifferentIntensitiesAndFuels(argVessels) => MeansDiffer(argVessels)

\* C10 amended: poolAverageIntensity is the fuel-weighted mean (at the displayed
\* precision), and in a pool of two vessels with different intensities and
\* different fuel volumes that mean differs from the arithmetic mean.
C10_WeightedMean ==
    PoolReturned
        => /\ result.summary.poolAverageIntensity = FuelWeightedMean(argVessels)
           /\ (Len(argVessels) = 2 /\ DifferentIntensitiesAndFuels(argVessels))
                => MeansDiffer(argVessels)

C10_Witness ==
    /\ PoolReturned
    /\ Len(argVessels) = 2
    /\ DifferentIntensitiesAndFuels(argVessels)
    /\ result.summary.poolAverageIntensity = FuelWeightedMean(argVessels)

\* C11: calculatePoolCompliance on an empty vessel list with a year of the
\* target table is not an error: it returns no vessel records, zero counts,
\* poolCompliant true, every balance, energy and monetary total zero, and
\* poolTargetIntensity = referenceGHGIntensity * (1 - target of that year).
C11_EmptyPoolIsCompliant ==
    (op = "calculatePoolCompliance" /\ Len(argVessels) = 0 /\ InTargetTable(argYear))
        => /\ ~IsError(result)
           /\ result.vessels = <<>>
           /\ \A f \in {"totalVessels", "compliantVessels", "nonCompliantVessels",
                        "totalEnergyConsumption", "totalEmissions",
                        "poolEnergyDeficit", "poolEnergySurplus",
                        "netEnergyDeficit", "netEnergySurplus",
                        "poolComplianceBalance", "poolComplianceDeficit",
                        "poolComplianceSurplus", "poolPotentialPenalty",
                        "totalPotentialPenalty", "totalVesselPenalties"} :
                  result.summary[f] = 0
           /\ result.summary.poolCompliant = TRUE
           /\ result.summary.poolTargetIntensity = TargetOf(argYear)
           /\ result.summary.complianceYear = argYear

C11_Witness ==
    /\ op = "calculatePoolCompliance"
    /\ argVessels = <<>>
    /\ argYear = 2030
    /\ result.summary.poolCompliant = TRUE
    /\ result.summary.poolTargetIntensity = 856904

\* The unrounded balance (targetIntensity - ghgIntensity) * fuelConsumption of
\* the vessel of a single-vessel call, in 1e-7 t
TheBalance == (TargetOf(argYear) - TheVessel.ghgIntensity) * TheVessel.fuelConsumption

\* 640 per tonne over 1e6: one hundredth of a million is the penalty of
\* 1e11 / 640 = 156250000 units of 1e-7 t.
BalancePerPenaltyCent == 156250000

\* C12 as stated: with a negative compliance balance potentialPenalty is
\* abs(complianceBalance) * penaltyRate / 1000000 and strictly positive; with a
\* balance >= 0 it is 0; it is never negative.
C12_PenaltyExactAndPositive ==
    Returned("calculateVesselCompliance")
        => /\ result.potentialPenalty >= 0
           /\ TheBalance >= 0 => result.potentialPenalty = 0
           /\ TheBalance < 0
                => /\ result.potentialPenalty > 0
                   /\ Abs(TheBalance) % BalancePerPenaltyCent = 0
                   /\ result.potentialPenalty = Abs(TheBalance) \div BalancePerPenaltyCent

\* C12 amended: with a negative compliance balance potentialPenalty is
\* abs(complianceBalance) * penaltyRate / 1000000 rounded to two decimals (of a
\* million), so it is positive exactly when the unrounded penalty is at least
\* 0.005; with a balance >= 0 it is 0; it is never negative.
C12_PenaltyRounded ==
    Returned("calculateVesselCompliance")
        => /\ result.potentialPenalty >= 0
           /\ TheBalance >= 0 => result.potentialPenalty = 0
           /\ TheBalance < 0
                => /\ result.potentialPenalty = ToFixed(Abs(TheBalance), BalancePerPenaltyCent)
                   /\ result.potentialPenalty > 0
                        <=> 2 * Abs(TheBalance) >= BalancePerPenaltyCent

C12_Witness ==
    /\ Returned("calculateVesselCompliance")
    /\ TheBalance < 0
    /\ result.status = "non-compliant"
    /\ result.potentialPenalty > 0

\* The rate the claim prescribes: the year's own inside the penalty table, the
\* one of 2030, the last year of the table, beyond it.
RateOf(year) ==
    IF year \in 2025..2030 THEN calc.penaltyRates[year] ELSE calc.penaltyRates[2030]

\* C13: in 2031 and 2032 the vessel's potentialPenalty and the pool's
\* poolPotentialPenalty are computed with the rate of 2030; in the years of the
\* penalty table with the year's own rate.
C13_RateFallsBackTo2030 ==
    /\ (Returned("calculateVesselCompliance") /\ TheBalance < 0)
          => result.potentialPenalty =
                 ToFixed(MulDivFloor(Abs(TheBalance), RateOf(argYear), 100000), 1000000)
    /\ (PoolReturned /\ result.summary.poolComplianceBalance < 0)
          => result.summary.poolPotentialPenalty =
                 ToFixed(Abs(result.summary.poolComplianceBalance) * RateOf(argYear),
                         1000000)

C13_Witness ==
    /\ PoolReturned
    /\ argYear \in {2031, 2032}
    /\ result.vessels[1].potentialPenalty > 0
    /\ result.summary.poolPotentialPenalty > 0

\* The vessels of the pool with a negative compliance balance
DeficitVessels ==
    {i \in 1..Len(argVessels) :
        (TargetOf(argYear) - argVessels[i].ghgIntensity) * argVessels[i].fuelConsumption < 0}

\* C14: poolPotentialPenalty is abs(net) * rate / 1e6 when the pool's net
\* balance is negative and 0 otherwise, totalPotentialPenalty is the sum of the
\* vessels' own penalties, and a pool with net balance >= 0 that holds one
\* deficit vessel has poolPotentialPenalty 0 and that vessel's penalty as
\* totalPotentialPenalty.
C14_NetPenaltyAndVesselPenalties ==
    PoolReturned
        => /\ result.summary.poolPotentialPenalty =
                  IF result.summary.poolComplianceBalance < 0
                  THEN ToFixed(Abs(result.summary.poolComplianceBalance) * RateOf(argYear),
                               1000000)
                  ELSE 0
           /\ result.summary.totalPotentialPenalty =
                  SumOfField(result.vessels, "potentialPenalty", Len(result.vessels))
           /\ \A i \in DeficitVessels :
                  (/\ DeficitVessels = {i}
                   /\ \/ result.summary.poolComplianceBalance >= 0
                      \/ SumOfLocals(argVessels, argYear, "complianceBalance",
                                     Len(argVessels)) >= 0)
                      => /\ result.summary.poolPotentialPenalty = 0
                         /\ result.summary.totalPotentialPenalty =
                                result.vessels[i].potentialPenalty

C14_Witness ==
    /\ PoolReturned
    /\ result.summary.poolComplianceBalance >= 0
    /\ \E i \in DeficitVessels : result.vessels[i].potentialPenalty > 0
    /\ result.summary.poolPotentialPenalty = 0
    /\ result.summary.totalPotentialPenalty > 0

\* max(0, 100 - (actual - target) / target * 100) for actual > target, as the
\* numerator over target: (2 * target - actual) * 100, or 0 from 2 * target on
ScoreAboveTarget(actual, target) ==
    IF actual >= 2 * target THEN 0 ELSE (2 * target - actual) * 100

\* C15: the score lies in [0, 100]; it is exactly 100 whenever actual <= target,
\* max(0, 100 - (actual - target) / target * 100) whenever actual > target, 100
\* by both formulas at actual = target, and 0 for actual >= 2 * target.
C15_ScoreClippedPiecewise ==
    /\ Returned("calculateVesselCompliance")
          => LET actual == TheVessel.ghgIntensity
                 target == TargetOf(argYear)
                 score == result.complianceScore
             IN  /\ score.den = target
                 /\ score.num \in 0..(target - 1)
                 /\ score.whole \in 0..100
                 /\ score.whole = 100 => score.num = 0
                 /\ actual <= target => (score.whole = 100 /\ score.num = 0)
                 /\ actual > target
                       => /\ score.whole = ScoreAboveTarget(actual, target) \div target
                          /\ score.num = ScoreAboveTarget(actual, target) % target
                 /\ actual = target
                       => ScoreAboveTarget(actual, target) = 100 * target
                 /\ actual >= 2 * target => (score.whole = 0 /\ score.num = 0)
    /\ PoolReturned => result.summary.poolComplianceScore \in 0..1000

C15_Witness ==
    /\ Returned("calculateVesselCompliance")
    /\ TheVessel.ghgIntensity > TargetOf(argYear)
    /\ TheVessel.ghgIntensity < 2 * TargetOf(argYear)
    /\ result.complianceScore.whole \in 1..99
    /\ result.complianceScore.num > 0

\* The vessel records with the fuel of the vessel of the call and a higher intensity
DirtierVessels ==
    {other \in VesselRecords :
        /\ other.fuelConsumption = TheVessel.fuelConsumption
        /\ other.ghgIntensity > TheVessel.ghgIntensity}

\* C16 as stated: for a fixed year and fuelConsumption > 0, a higher
\* ghgIntensity never gives a higher complianceScore and gives a strictly
\* lower returned complianceBalance.
C16_BalanceStrictlyDecreasing ==
    (Returned("calculateVesselCompliance") /\ TheVessel.fuelConsumption > 0)
        => \A other \in DirtierVessels :
               /\ FracLeq(calculateVesselCompliance(other, argYear).complianceScore,
                          result.complianceScore)
               /\ calculateVesselCompliance(other, argYear).complianceBalance
                      < result.complianceBalance

\* C16 amended: for a fixed year and fuelConsumption > 0, a higher ghgIntensity
\* never gives a higher complianceScore nor a higher returned complianceBalance;
\* the returned balance, rounded to 0.01 t, is strictly lower whenever the
\* balances before rounding differ by at least 0.01 t.
C16_MonotoneInIntensity ==
    (Returned("calculateVesselCompliance") /\ TheVessel.fuelConsumption > 0)
        => \A other \in DirtierVessels :
               /\ FracLeq(calculateVesselCompliance(other, argYear).complianceScore,
                          result.complianceScore)
               /\ calculateVesselCompliance(other, argYear).complianceBalance
                      <= result.complianceBalance
               /\ (other.ghgIntensity - TheVessel.ghgIntensity)
                      * TheVessel.fuelConsumption >= 100000
                    => calculateVesselCompliance(other, argYear).complianceBalance
                           < result.complianceBalance

C16_Witness ==
    /\ Returned("calculateVesselCompliance")
    /\ TheVessel.fuelConsumption > 0
    /\ \E other \in DirtierVessels :
           /\ calculateVesselCompliance(other, argYear).complianceBalance
                  = result.complianceBalance
           /\ calculateVesselCompliance(other, argYear).complianceScore
                  # result.complianceScore

\* The years of [startYear, endYear] that are in the target table
TrendYears == {y \in argYear..argEndYear : InTargetTable(y)}

\* C17: calculateComplianceTrend returns, in strictly ascending year order,
\* exactly one entry for each year of [startYear, endYear] in the target table,
\* raises nothing for the other years (an empty sequence when there is no such
\* year or startYear > endYear), and the figures of each entry are those of
\* calculatePoolCompliance for that year on the same vessel list.
C17_TrendPerTableYear ==
    op = "calculateComplianceTrend"
        => /\ ~IsError(result)
           /\ Len(result.trendData) = Cardinality(TrendYears)
           /\ {result.trendData[i].year : i \in 1..Len(result.trendData)} = TrendYears
           /\ \A i, j \in 1..Len(result.trendData) :
                  i < j => result.trendData[i].year < result.trendData[j].year
           /\ TrendYears = {} => result.trendData = <<>>
           /\ \A i \in 1..Len(result.trendData) :
                  LET entry == result.trendData[i]
                      summary == calculatePoolCompliance(argVessels, entry.year).summary
                  IN  /\ entry.complianceRate = summary.complianceRate
                      /\ entry.poolCompliant = summary.poolCompliant
                      /\ entry.totalPenalty = summary.totalPotentialPenalty
                      /\ entry.reductionTarget = summary.reductionTarget
                      /\ entry.poolAverageIntensity = summary.poolAverageIntensity
                      /\ entry.poolTargetIntensity = summary.poolTargetIntensity
                      /\ entry.poolTargetIntensity =
                             IF Len(argVessels) = 0 THEN TargetOf(entry.year)
                             ELSE ToFixed(TargetOf(entry.year), 100) * 100
                      /\ summary.complianceYear = entry.year

C17_Witness ==
    /\ op = "calculateComplianceTrend"
    /\ Len(argVessels) = 1
    /\ argYear = 1999
    /\ argEndYear = 2033
    /\ Len(result.trendData) = 8
    /\ result.trendData[1].poolTargetIntensity = 893400
    /\ result.trendData[8].poolTargetIntensity = 856900

\* 5% of the fuelConsumption of the vessel of the call, in MJ
FivePercentOfFuel == TheVessel.fuelConsumption * 50

\* The compliance record of the vessel of the call
TheCompliance == calculateVesselCompliance(TheVessel, argYear)

C19_BankOnSurplusBorrowOnDeficit ==
    (/\ Returned("calculateBankingBorrowing")
     /\ TheVessel.fuelConsumption > 0
     /\ TheVessel.ghgIntensity # TargetOf(argYear))
        => /\ (result.bankingCapacity # 0) # (result.borrowingCapacity # 0)
           /\ result.canBank => TheCompliance.status = "compliant"
           /\ result.canBorrow => TheCompliance.status = "non-compliant"

\* The recommendations of the three tiers, by their leading words
LowTier ==
    <<[text |-> "operational efficiency improvements"],
      [text |-> "energy management systems"]>>

MiddleTier ==
    <<[text |-> "alternative fuel blending"],
      [text |-> "more efficient marine engines"],
      [text |-> "energy recovery systems"]>>

HighTier ==
    <<[text |-> "Significant fuel transition required"],
      [text |-> "vessel retrofit or replacement"],
      [text |-> "comprehensive decarbonization strategy"]>>

\* (ghgIntensity - targetIntensity) / ghgIntensity * 100 <= 5 is
\* 19 * ghgIntensity <= 20 * targetIntensity, and <= 15 is 17 * ... <= 20 * ...
TierOf(ghgIntensity, targetIntensity) ==
    IF 19 * ghgIntensity <= 20 * targetIntensity THEN LowTier
    ELSE IF 17 * ghgIntensity <= 20 * targetIntensity THEN MiddleTier
    ELSE HighTier

\* C20: suggestImprovements returns the one maintenance suggestion with status
\* compliant for a compliant vessel; otherwise it reports
\* (ghgIntensity - targetIntensity) / ghgIntensity * 100 and the recommendations
\* of exactly one tier (<= 5, <= 15, above; 5 and 15 in the lower tier),
\* followed by one restatement of the target in numbers.
C20_OneTierThenTarget ==
    Returned("suggestImprovements")
        => LET ghgIntensity == TheVessel.ghgIntensity
               targetIntensity == TargetOf(argYear)
           IN  IF TheBalance >= 0
               THEN result = [status |-> "compliant",
                              suggestions |-> <<[text |-> "Vessel is already compliant"]>>]
               ELSE /\ result.status = "non-compliant"
                    /\ result.requiredReductionPercent =
                           RatioToFixed(ghgIntensity - targetIntensity, ghgIntensity, 3)
                    /\ result.suggestions =
                           Append(TierOf(ghgIntensity, targetIntensity),
                                  [text |-> "Target",
                                   percent |-> result.requiredReductionPercent,
                                   intensity |-> ToFixed(targetIntensity, 100) * 100])

C20_Witness ==
    /\ Returned("suggestImprovements")
    /\ argYear = 2025
    /\ TheVessel = JustBelowFivePercentVessel
    /\ result.requiredReductionPercent = 50
    /\ Len(result.suggestions) = 3
    /\ result.suggestions[3].text = "Target"

\* The vessels of the pool whose own balance is not negative
SurplusVessels == (1..Len(argVessels)) \ DeficitVessels

\* C23: in a non-empty pool compliantVessels + nonCompliantVessels =
\* totalVessels = the number of input vessels, each vessel is counted by its
\* own status, and complianceRate = compliantVessels / totalVessels * 100 (at
\* one decimal), between 0 and 100.
C23_CountsByOwnStatus ==
    PoolReturned
        => /\ result.summary.totalVessels = Len(argVessels)
           /\ result.summary.compliantVessels + result.summary.nonCompliantVessels
                  = result.summary.totalVessels
           /\ result.summary.compliantVessels = Cardinality(SurplusVessels)
           /\ result.summary.nonCompliantVessels = Cardinality(DeficitVessels)
           /\ \A i \in 1..Len(argVessels) :
                  result.vessels[i].status = "compliant" <=> i \in SurplusVessels
           /\ result.summary.complianceRate =
                  ToFixed(result.summary.compliantVessels * 1000,
                          result.summary.totalVessels)
           /\ result.summary.complianceRate \in 0..1000

C23_Witness ==
    /\ PoolReturned
    /\ result.summary.poolCompliant = TRUE
    /\ result.summary.totalVessels = 3
    /\ result.summary.nonCompliantVessels = 1
    /\ result.summary.complianceRate = 667

\* The vessel of the scenario: fuelConsumption 28000, ghgIntensity 95.12
ScenarioVessel == [fuelConsumption |-> 28, ghgIntensity |-> 951200]

ScenarioReturned ==
    /\ Returned("calculateVesselCompliance")
    /\ argYear = 2025
    /\ TheVessel = ScenarioVessel

\* C24 as stated: in 2025 the vessel with fuelConsumption 28000 and
\* ghgIntensity 95.12 yields deviation -5.7832 (-5.783 at three decimals), a
\* complianceBalance of about -0.1619 t (-0.16 at two decimals), status
\* non-compliant and a nonzero potentialPenalty.
C24_ScenarioNonzeroPenalty ==
    ScenarioReturned
        => /\ TargetOf(argYear) - TheVessel.ghgIntensity = -57832
           /\ result.deviation = -57830
           /\ result.complianceBalance = -16
           /\ result.status = "non-compliant"
           /\ result.potentialPenalty # 0

\* C24 amended: the same deviation, balance and status; the penalty before
\* rounding is 0.1619 * 640 / 1e6 = 0.000104 million, and the potentialPenalty
\* returned, at two decimals of a million, is 0.
C24_ScenarioPenaltyRoundsToZero ==
    ScenarioReturned
        => /\ TargetOf(argYear) - TheVessel.ghgIntensity = -57832
           /\ result.deviation = -57830
           /\ TheBalance = -1619296
           /\ result.complianceBalance = -16
           /\ result.status = "non-compliant"
           /\ ToFixed(Abs(TheBalance) * RateOf(argYear), 10000000) = 104
           /\ result.potentialPenalty = 0

C24_Witness ==
    /\ ScenarioReturned
    /\ result.complianceBalance = -16
    /\ result.potentialPenalty = 0

\* The unrounded score of the pool's fuel-weighted average intensity
UnroundedPoolScore ==
    calculateComplianceScore(SumOfEmissions(argVessels, Len(argVessels)),
                             SumOfField(argVessels, "fuelConsumption", Len(argVessels)),
                             TargetOf(argYear))

\* The fuel-weighted average intensity of the pool is at most the target
AverageWithinTarget ==
    SumOfEmissions(argVessels, Len(argVessels))
        <= TargetOf(argYear) * SumOfField(argVessels, "fuelConsumption", Len(argVessels))

\* C26: in a non-empty pool of vessels with positive fuelConsumption,
\* poolCompliant is true exactly when the fuel-weighted average intensity is at
\* most the target intensity, and exactly when the unrounded pool score is 100.
C26_PoolVerdictsAgree ==
    (PoolReturned /\ \A i \in 1..Len(argVessels) : argVessels[i].fuelConsumption > 0)
        => /\ result.summary.poolCompliant <=> AverageWithinTarget
           /\ result.summary.poolCompliant
                <=> (UnroundedPoolScore.whole = 100 /\ UnroundedPoolScore.num = 0)

\* C27: in every pool the reported poolPotentialPenalty is at most the
\* reported totalPotentialPenalty, and it is 0 whenever poolCompliant is true.
C27_NettingNeverCostsMore ==
    Returned("calculatePoolCompliance")
        => /\ result.summary.poolPotentialPenalty <= result.summary.totalPotentialPenalty
           /\ result.summary.poolCompliant => result.summary.poolPotentialPenalty = 0

\* C28: for a vessel with fuelConsumption > 0 the returned status is compliant
\* exactly when the returned complianceScore is exactly 100, and non-compliant
\* exactly when the score is below 100.
C28_StatusIffFullScore ==
    (Returned("calculateVesselCompliance") /\ TheVessel.fuelConsumption > 0)
        => /\ result.status = "compliant"
                <=> (result.complianceScore.whole = 100 /\ result.complianceScore.num = 0)
           /\ result.status = "non-compliant" <=> result.complianceScore.whole < 100

C28_Witness ==
    /\ Returned("calculateVesselCompliance")
    /\ TheVessel.fuelConsumption > 0
    /\ result.status = "non-compliant"
    /\ result.complianceBalance = 0
    /\ result.complianceScore.whole = 99

\* The fields calculateVesselCompliance computes
ComputedFields ==
    {"complianceYear", "targetIntensity", "deviation", "deviationPercent",
     "energyDeficit", "energySurplus", "complianceBalance", "potentialPenalty",
     "status", "complianceScore"}

\* The vessel of the call reduced to the two fields the formulas name
BareVessel ==
    [fuelConsumption |-> TheVessel.fuelConsumption,
     ghgIntensity |-> TheVessel.ghgIntensity]

\* C25: every field of the input vessel record is in the result; those that
\* do not share a name with a computed field are unchanged, none of them
\* changes a computed value, and a stored status is replaced by the computed
\* two-state status.
C25_FieldsPassThrough ==
    Returned("calculateVesselCompliance")
        => /\ DOMAIN result = DOMAIN TheVessel \cup ComputedFields
           /\ \A f \in DOMAIN TheVessel \ ComputedFields : result[f] = TheVessel[f]
           /\ \A f \in ComputedFields :
                  result[f] = calculateVesselCompliance(BareVessel, argYear)[f]
           /\ result.status \in {"compliant", "non-compliant"}
           /\ result.status = "compliant" <=> TheBalance >= 0

C25_Witness ==
    /\ Returned("calculateVesselCompliance")
    /\ argYear = 2025
    /\ TheVessel = SampleVessel
    /\ TheVessel.status = "at-risk"
    /\ result.status = "non-compliant"
    /\ result.name = "Nordic Carrier"
    /\ result.pool = "Pool A"

\* The fields of the summary of a pool result
SummaryFields ==
    {"totalVessels", "compliantVessels", "nonCompliantVessels", "complianceRate",
     "totalEnergyConsumption", "totalEmissions", "poolEnergyDeficit",
     "poolEnergySurplus", "netEnergyDeficit", "netEnergySurplus",
     "poolComplianceBalance", "poolComplianceDeficit", "poolComplianceSurplus",
     "poolAverageIntensity", "poolTargetIntensity", "poolDeviation",
     "poolCompliant", "poolComplianceScore", "poolPotentialPenalty",
     "totalPotentialPenalty", "complianceYear", "reductionTarget"}

\* The fuel of the vessels of the call sums to zero
TotalFuelZero ==
    SumOfField(argVessels, "fuelConsumption", Len(argVessels)) = 0

\* C22: for a year of the target table calculateVesselCompliance and
\* calculatePoolCompliance raise no error whatever the fuel consumption and
\* the intensity of the vessels (zero, negative, a pool whose fuel sums to
\* zero); each returns its complete record.
C22_NoErrorOnDegenerateNumbers ==
    /\ (op = "calculateVesselCompliance" /\ HasTarget(argYear))
           => /\ ~IsError(result)
              /\ DOMAIN result = DOMAIN TheVessel \cup ComputedFields
    /\ (op = "calculatePoolCompliance" /\ HasTarget(argYear))
           => /\ ~IsError(result)
              /\ DOMAIN result = {"vessels", "summary"}
              /\ SummaryFields \subseteq DOMAIN result.summary
              /\ Len(result.vessels) = Len(argVessels)
              /\ \A i \in 1..Len(argVessels) :
                     /\ ~IsError(result.vessels[i])
                     /\ DOMAIN result.vessels[i]
                            = DOMAIN argVessels[i] \cup ComputedFields

C22_Witness ==
    /\ op = "calculatePoolCompliance"
    /\ HasTarget(argYear)
    /\ argVessels = <<ZeroGhgVessel, NegativeFuelVessel>>
    /\ TotalFuelZero
    /\ ~IsError(result)
    /\ result.summary.poolAverageIntensity = "-Infinity"
    /\ result.summary.poolComplianceScore = 1000
    /\ result.summary.totalEnergyConsumption = 0

\* The operations of the engine
EngineOperations ==
    {"calculateVesselCompliance", "calculatePoolCompliance",
     "calculateComplianceTrend", "suggestImprovements",
     "calculateBankingBorrowing", "validateInputs", "getAvailableYears"}

\* What the operation of the state returns when it is called once more on
\* the records and the year of the state
CalledAgain ==
    CASE op = "calculateVesselCompliance" ->
             calculateVesselCompliance(argVessels[1], argYear)
      [] op = "calculatePoolCompliance" ->
             calculatePoolCompliance(argVessels, argYear)
      [] op = "calculateComplianceTrend" ->
             calculateComplianceTrend(argVessels, argYear, argEndYear)
      [] op = "suggestImprovements" ->
             suggestImprovements(argVessels[1], argYear)
      [] op = "calculateBankingBorrowing" ->
             calculateBankingBorrowing(argVessels[1], argYear)
      [] op = "validateInputs" ->
             [errors |-> validateInputs(IF Len(argVessels) = 0 THEN Null
                                        ELSE argVessels[1], argYear)]
      [] op = "getAvailableYears" -> [years |-> getAvailableYears]
      [] OTHER -> result

C29_VesselCountsInSync ==
    \A name \in DOMAIN pools : pools[name].vesselCount = CountInPool(fleet, name)

\* C30: after any sequence of calls of UserManager.createUser, updateUser,
\* deleteUser, updateUserPools and of AuthManager.addUser, updateUserData,
\* deleteUser, failing ones included, each manager still has the user admin
\* and its role is admin.
C30_AdminProtected ==
    /\ "admin" \in DOMAIN users
    /\ users["admin"].role = "admin"
    /\ users["admin"].permissions = AdminPermissions
    /\ "admin" \in DOMAIN authUsers
    /\ "role" \in DOMAIN authUsers["admin"]
    /\ authUsers["admin"].role = "admin"

C30_Witness ==
    /\ op = "UserManager.deleteUser"
    /\ IsError(result)
    /\ result.error = "Cannot delete the admin user"
    /\ users["admin"].name = "Renamed"
    /\ users["admin"].role = "admin"
    /\ authUsers["admin"].password = "secret"
    /\ authUsers["admin"].role = "admin"

====
